---- MODULE Spec2Model ----
(***************************************************************************)
(* Sandboxed test execution and validation of the legacy code modernizer.  *)
(*                                                                         *)
(* The model covers src/src/sandbox: the validator facade                  *)
(* (ModalSandboxValidator), the backend selection wrapper                  *)
(* (run_tests_in_sandbox), the remote backend (execute_in_modal and its    *)
(* per-language executors), the local backend (run_tests_locally and its   *)
(* per-language functions) and the three language runners                  *)
(* (runners/*.py).                                                         *)
(*                                                                         *)
(* Python dicts are records; a key the code does not set is absent from    *)
(* the record.  The keys stdout, stderr, coverage_percent and the measured *)
(* execution_time are left out of the result records (they are copies of   *)
(* tool output or wall-clock measurements); execution_time is kept where   *)
(* the code sets it to a literal.  Source texts are abstracted to the set  *)
(* of substrings the code looks for, tool output to what the parsers read. *)
(* Exceptions are the subclasses of Exception; BaseException               *)
(* (KeyboardInterrupt, SystemExit) is outside the model.                   *)
(***************************************************************************)
EXTENDS Integers, Sequences, FiniteSets, TLC

VARIABLES
    environ,                  \* what __init__ reads: its argument and the environment
    MODAL_AVAILABLE,          \* images.py: the Modal SDK could be imported
    MODAL_EXECUTOR_AVAILABLE, \* validator.py: modal_executor could be imported
    prefer_modal,             \* ModalSandboxValidator.prefer_modal
    op,                       \* public operation in progress or just returned, "idle" if none
    ctx,                      \* the try block of the facade the backend run is in
    pc,                       \* position inside the backend run
    req,                      \* the request of the backend run in progress
    oracle,                   \* how the local tools behave for this request
    ret,                      \* value returned / exception raised by the backend run
    result,                   \* what the last completed public call returned
    transformations,          \* validate_batch: the input list
    results,                  \* validate_batch: the list being built
    phase,                    \* test_behavioral_equivalence: 0, 1 (original), 2 (modernized)
    codes,                    \* test_behavioral_equivalence: <<original, modernized>>
    original_results,         \* test_behavioral_equivalence: result of the first run
    tmpdirs,                  \* live temporary project directories
    sandboxes,                \* live Modal sandboxes
    trace,                    \* history of the public call in progress (see NoTrace)
    idx,                      \* orchestrator, Phase 5: position of the for loop
    validation_results,       \* orchestrator, Phase 5: the list being built
    errors,                   \* orchestrator: results['errors']
    visited                   \* Phase 5: what became of each item the loop has taken

vars == <<environ, MODAL_AVAILABLE, MODAL_EXECUTOR_AVAILABLE, prefer_modal, op, ctx, pc, req,
          oracle, ret, result, transformations, results, phase, codes,
          original_results, tmpdirs, sandboxes, trace,
          idx, validation_results, errors, visited>>

(***************************************************************************)
(* Bounds of the model.                                                    *)
(***************************************************************************)
\* largest number of tests a tool output reports
MaxCount == 1
\* longest list given to validate_batch
MaxBatch == 2
\* most transformations handed to Phase 5 of the orchestrator
MaxFiles == 2

(***************************************************************************)
(* Timeout literals of the code, in seconds.                               *)
(***************************************************************************)
LocalPytestTimeout == 120
RunnerPytestTimeout == 120
RunnerMavenTimeout == 300
RunnerJestTimeoutReported == 300
LocalJavacTimeout == 60
LocalJavaTimeout == 120
LocalNodeTimeout == 60
RunnerNpmInstallTimeout == 180
RunnerJestTimeout == 120
LocalPipTimeout == 60
RunnerPipTimeout == 120
RemotePytestTimeout == 120
RemoteMavenTimeout == 120
RemoteNpmTimeout == 180

\* the timeout= arguments of the subprocess.run calls of one backend run
CommandTimeouts(backend, language) ==
    IF backend = "runner"
    THEN CASE language = "python" -> {RunnerPipTimeout, RunnerPytestTimeout}
           [] language = "java" -> {RunnerMavenTimeout}
           [] OTHER -> {RunnerNpmInstallTimeout, RunnerJestTimeout}
    ELSE CASE language = "python" -> {LocalPipTimeout, LocalPytestTimeout}
           [] language = "java" -> {LocalJavacTimeout, LocalJavaTimeout}
           [] OTHER -> {LocalNodeTimeout}

\* the install, build and test commands of a local run, in the order the
\* _run_*_tests_locally functions start them
LocalCommands(language, requirements) ==
    CASE language = "python" ->
           (IF requirements # {}
            THEN <<[program |-> "pip install", timeout |-> LocalPipTimeout]>>
            ELSE <<>>)
           \o <<[program |-> "pytest", timeout |-> LocalPytestTimeout]>>
      [] language = "java" ->
           <<[program |-> "javac", timeout |-> LocalJavacTimeout],
             [program |-> "java", timeout |-> LocalJavaTimeout]>>
      [] OTHER -> <<[program |-> "node", timeout |-> LocalNodeTimeout]>>

\* the install, build and test commands the _execute_*_in_sandbox functions
\* give to sb.exec (the executors are not passed the requirements)
RemoteCommands(language, requirements) ==
    CASE language = "python" -> <<[program |-> "pytest", timeout |-> RemotePytestTimeout]>>
      [] language = "java" -> <<[program |-> "mvn test", timeout |-> RemoteMavenTimeout]>>
      [] OTHER -> <<[program |-> "npm install && npm test",
                     timeout |-> RemoteNpmTimeout]>>

(***************************************************************************)
(* Inputs.  A path is its stem and suffix (pathlib); NoPath is None / "".  *)
(* A source text is the set of the substrings the code searches for.       *)
(***************************************************************************)
NoPath == [stem |-> "", suffix |-> ""]
Paths == {NoPath,
          [stem |-> "calc", suffix |-> ".py"],
          [stem |-> "Calc", suffix |-> ".java"],
          [stem |-> "calc", suffix |-> ".js"],
          [stem |-> "calc", suffix |-> ".ts"]}

PyCode == {"def ", "import ", "import requests"}
JavaCode == {"public class"}
JsCode == {"function "}
TsCode == {"interface "}
PlainCode == {}
Codes == {PyCode, JavaCode, JsCode, TsCode, PlainCode}

\* a transformation as the agents hand it over: file_path and modernized_code
Units == {[file_path |-> [stem |-> "calc", suffix |-> ".py"], modernized_code |-> PyCode],
          [file_path |-> [stem |-> "Calc", suffix |-> ".java"], modernized_code |-> JavaCode],
          [file_path |-> [stem |-> "calc", suffix |-> ".js"], modernized_code |-> JsCode],
          [file_path |-> [stem |-> "calc", suffix |-> ".ts"], modernized_code |-> TsCode],
          [file_path |-> NoPath, modernized_code |-> PlainCode],
          [file_path |-> NoPath, modernized_code |-> JavaCode]}

Languages == {"python", "java", "javascript", "typescript"}

\* A test text is the set of the markers the structural checks of the
\* runners look for ("<syntax error>": compile() rejects the text).
TestTexts == {{"def test_", "import"}, {"def test_"}, {"import"},
              {"def test_", "import", "<syntax error>"},
              {"@Test", "org.junit", "class", "import"}, {"org.junit", "class", "import"},
              {"describe(", "import", "expect("}, {"describe(", "import"}}

\* (is_valid, error_message) as [ok, msg]
_validate_python_tests(tests) ==
    IF "def test_" \notin tests /\ "class Test" \notin tests
    THEN [ok |-> FALSE,
          msg |-> "No test functions found (must start with 'test_' or be in 'Test' class)"]
    ELSE IF "import" \notin tests
    THEN [ok |-> FALSE, msg |-> "No import statements found"]
    ELSE IF "<syntax error>" \in tests
    THEN [ok |-> FALSE, msg |-> "Syntax error in test code: <e>"]
    ELSE [ok |-> TRUE, msg |-> ""]

_validate_java_tests(tests) ==
    IF "@Test" \notin tests
    THEN [ok |-> FALSE, msg |-> "No @Test annotations found (required for JUnit 5)"]
    ELSE IF "org.junit" \notin tests
    THEN [ok |-> FALSE, msg |-> "Missing JUnit imports (import org.junit.jupiter.api.Test)"]
    ELSE IF "class" \notin tests
    THEN [ok |-> FALSE, msg |-> "No test class found"]
    ELSE [ok |-> TRUE, msg |-> ""]

_validate_javascript_tests(tests) ==
    IF "describe(" \notin tests /\ "test(" \notin tests /\ "it(" \notin tests
    THEN [ok |-> FALSE, msg |-> "No Jest test functions found (describe/test/it)"]
    ELSE IF "import" \notin tests /\ "require" \notin tests
    THEN [ok |-> FALSE, msg |-> "No import/require statements found"]
    ELSE IF "expect(" \notin tests
    THEN [ok |-> FALSE, msg |-> "No expect() assertions found"]
    ELSE [ok |-> TRUE, msg |-> ""]

ValidateTests(language, tests) ==
    CASE language = "python" -> _validate_python_tests(tests)
      [] language = "java" -> _validate_java_tests(tests)
      [] OTHER -> _validate_javascript_tests(tests)

\* test texts handed to the validator for a file of the language: one with
\* the markers of the language, one without the test marker
FacadeTests(language) ==
    CASE language = "python" -> {{"def test_", "import"}, {"import"}}
      [] language = "java" -> {{"@Test", "org.junit", "class", "import"},
                               {"org.junit", "class", "import"}}
      [] OTHER -> {{"describe(", "import", "expect("}, {"describe(", "import"}}

\* dict.get(key, 0)
Get(d, k) == IF k \in DOMAIN d THEN d[k] ELSE 0

\* validator.py extension_map
ExtensionMap(ext) ==
    CASE ext \in {".py", ".pyw", ".pyx"} -> "python"
      [] ext = ".java" -> "java"
      [] ext \in {".js", ".jsx", ".mjs", ".cjs"} -> "javascript"
      [] ext \in {".ts", ".tsx"} -> "typescript"
      [] OTHER -> "none"

_detect_language(file_path, code) ==
    IF file_path # NoPath /\ ExtensionMap(file_path.suffix) # "none"
    THEN ExtensionMap(file_path.suffix)
    ELSE IF "public class" \in code \/ "import java." \in code THEN "java"
    ELSE IF "def " \in code /\ ("import " \in code \/ "from " \in code) THEN "python"
    ELSE IF "function " \in code \/ "const " \in code \/ "let " \in code THEN "javascript"
    ELSE IF "interface " \in code \/ "type " \in code THEN "typescript"
    ELSE "python"

\* the packages of the import maps the model's source texts can name
PythonImportMap == {"requests", "flask"}
JsImportMap == {"axios"}

_extract_requirements(code, language) ==
    IF language = "python"
    THEN {p \in PythonImportMap : ("import " \o p) \in code}
    ELSE IF language \in {"javascript", "typescript"}
    THEN {p \in JsImportMap : ("'" \o p \o "'") \in code}
    ELSE {}

\* Path(file_path).stem if file_path else "module"
ModuleName(file_path) == IF file_path # NoPath THEN file_path.stem ELSE "module"

(***************************************************************************)
(* The remote backend: modal_executor.py.  An outcome is what the sandbox  *)
(* does for one executor call: an exception out of sb.exec / sb.open       *)
(* ("raise"), or the exit status of the test command ("done").             *)
(***************************************************************************)
Counts == 0..MaxCount

RaiseOutcome == [kind |-> "raise"]

RemotePythonOutcomes == {RaiseOutcome} \cup [kind : {"done"}, rc : {0, 1}]

RemoteJavaOutcomes == {RaiseOutcome} \cup [kind : {"done"}, rc : {0, 1}]

\* what the executor finds in stdout: no line holding numTotalTests ("none"), a
\* line that is not JSON ("bad"), or a line of jest --json ("line")
JestJsonLines ==
    {j \in [kind : {"line"}, numTotalTests : Counts, numPassedTests : Counts,
            numFailedTests : Counts, success : BOOLEAN] :
        j.numPassedTests + j.numFailedTests <= j.numTotalTests}

JestJson == {[kind |-> "none"], [kind |-> "bad"]} \cup JestJsonLines

\* "npm install --legacy-peer-deps && npm test": when the install fails the
\* shell stops there with a non-zero status and jest prints nothing.  With a
\* JSON line the executor does not read the exit status; it is the one jest
\* gives (0 exactly when the run succeeded).
RemoteJsOutcomes ==
    {RaiseOutcome}
    \cup {[kind |-> "done", install_ok |-> FALSE, rc |-> 1, json |-> [kind |-> "none"]]}
    \cup {o \in [kind : {"done"}, install_ok : {TRUE}, rc : {0, 1}, json : JestJson] :
            o.json.kind = "line" => (o.rc = 0 <=> o.json.success)}

RemoteOutcomes(language) ==
    CASE language = "python" -> RemotePythonOutcomes
      [] language = "java" -> RemoteJavaOutcomes
      [] OTHER -> RemoteJsOutcomes

_execute_python_in_sandbox(o) ==
    IF o.kind = "raise"
    THEN [success |-> FALSE, error |-> "Python execution error: <e>",
          tests_run |-> 0, tests_passed |-> 0, tests_failed |-> 0,
          execution_mode |-> "modal", language |-> "python"]
    ELSE [success |-> (o.rc = 0), tests_run |-> 1,
          tests_passed |-> IF o.rc = 0 THEN 1 ELSE 0,
          tests_failed |-> IF o.rc = 0 THEN 0 ELSE 1,
          execution_mode |-> "modal", language |-> "python"]

_execute_java_in_sandbox(o) ==
    IF o.kind = "raise"
    THEN [success |-> FALSE, error |-> "Java execution error: <e>",
          tests_run |-> 0, tests_passed |-> 0, tests_failed |-> 0,
          execution_mode |-> "modal", language |-> "java"]
    ELSE IF o.rc = 0
    THEN [success |-> TRUE, tests_run |-> 1, tests_passed |-> 1, tests_failed |-> 0,
          execution_mode |-> "modal", language |-> "java"]
    ELSE [success |-> FALSE, error |-> "Tests failed: <stderr>",
          tests_run |-> 1, tests_passed |-> 0, tests_failed |-> 1,
          execution_mode |-> "modal", language |-> "java"]

_execute_javascript_in_sandbox(o, language) ==
    IF o.kind = "raise"
    THEN [success |-> FALSE, error |-> language \o " execution error: <e>",
          tests_run |-> 0, tests_passed |-> 0, tests_failed |-> 0,
          execution_mode |-> "modal", language |-> language]
    ELSE IF o.json.kind = "line"
    THEN [success |-> o.json.success, tests_run |-> o.json.numTotalTests,
          tests_passed |-> o.json.numPassedTests,
          tests_failed |-> o.json.numFailedTests,
          execution_mode |-> "modal", language |-> language]
    ELSE [success |-> (o.rc = 0), tests_run |-> 1,
          tests_passed |-> IF o.rc = 0 THEN 1 ELSE 0,
          tests_failed |-> IF o.rc = 0 THEN 0 ELSE 1,
          execution_mode |-> "modal", language |-> language]

\* the dispatch of execute_in_modal (every language of LANGUAGE_IMAGES has an executor)
ExecutorResult(language, o) ==
    CASE language = "python" -> _execute_python_in_sandbox(o)
      [] language = "java" -> _execute_java_in_sandbox(o)
      [] OTHER -> _execute_javascript_in_sandbox(o, language)

\* execute_in_modal's own handler: App.lookup or Sandbox.create raised
ModalSandboxError(language) ==
    [success |-> FALSE, error |-> "Modal sandbox error: <e>",
     tests_run |-> 0, tests_passed |-> 0, tests_failed |-> 0,
     execution_mode |-> "modal_error", language |-> language]

\* where the executor's run ended: an upload or exec raised ("exec"), npm
\* install failed ("install"), or the output of the test command was parsed
RemoteStage(o) ==
    IF o.kind = "raise" THEN "exec"
    ELSE IF "install_ok" \in DOMAIN o /\ ~o.install_ok THEN "install"
    ELSE "parsed"

(***************************************************************************)
(* The local backend: validator.py, run_tests_locally and the three        *)
(* _run_*_tests_locally.  A world says how the host behaves at each step   *)
(* of one local run: creating the temporary directory, writing the files,  *)
(* pip install (Python with requirements only) and the build/test          *)
(* processes.                                                              *)
(***************************************************************************)
\* pip install: check=False and "except Exception" make every outcome alike
InstallOutcomes == {"ok", "nonzero", "timeout", "notfound"}

\* pytest's summary: the "=== ... in 0.5s ===" line with the numbers before
\* passed / failed / error / skipped (0: the word is not there), or no such
\* line in stdout ("none")
PytestSummaries ==
    {[kind |-> "none"]}
    \cup {m \in [kind : {"line"}, passed : Counts, failed : Counts, error : Counts,
                 skipped : Counts] :
            m.passed + m.failed + m.error + m.skipped <= MaxCount}

\* pytest: subprocess.run raised TimeoutExpired / FileNotFoundError / another
\* exception (PermissionError, ...), or it ended with exit status rc, its
\* summary line, and a stdout holding " PASSED", " FAILED" and " ERROR" as
\* often as the summary says (a skipped test has a " SKIPPED" line, which
\* the code does not count)
LocalPythonOutcomes ==
    [kind : {"timeout", "notfound", "raise"}]
    \cup {o \in [kind : {"done"}, rc : {0, 1}, summary : PytestSummaries,
                 PASSED : Counts, FAILED : Counts, ERROR : Counts] :
            /\ o.summary.kind = "line"
            /\ o.PASSED = o.summary.passed
            /\ o.FAILED = o.summary.failed
            /\ o.ERROR = o.summary.error}

\* javac, then java <Class>Test: at says which of the two processes it was
LocalJavaOutcomes ==
    [kind : {"timeout", "notfound", "raise"}, at : {"javac", "java"}]
    \cup {[kind |-> "compile_failed"]}
    \cup [kind : {"done"}, rc : {0, 1}]

\* node <module>.test.js; load_failed: node could not load the test file
\* (syntax error, missing module) and ran nothing of it
LocalJsOutcomes ==
    [kind : {"timeout", "notfound", "raise"}]
    \cup {o \in [kind : {"done"}, rc : {0, 1}, load_failed : BOOLEAN] :
            o.load_failed => o.rc = 1}

LocalOutcomes(language) ==
    CASE language = "python" -> LocalPythonOutcomes
      [] language = "java" -> LocalJavaOutcomes
      [] OTHER -> LocalJsOutcomes

SkipOutcome == [kind |-> "skip"]

\* the step is reached only when the steps before it went through
LocalWorlds(language, requirements) ==
    {[mkdtemp |-> "raise", scaffold |-> "skip", install |-> "skip", test |-> SkipOutcome],
     [mkdtemp |-> "ok", scaffold |-> "raise", install |-> "skip", test |-> SkipOutcome]}
    \cup [mkdtemp : {"ok"}, scaffold : {"ok"},
          install : IF language = "python" /\ requirements # {}
                    THEN InstallOutcomes ELSE {"skip"},
          test : LocalOutcomes(language)]

\* a variant of _run_python_tests_locally whose result leaves out the count
\* of the " ERROR" occurrences
_run_python_tests_locally_DropsErrors(o) ==
    CASE o.kind = "timeout" ->
           [success |-> FALSE, error |-> "Test execution timeout (>2 minutes)",
            tests_run |-> 0, tests_passed |-> 0, tests_failed |-> 0,
            execution_time |-> LocalPytestTimeout, execution_mode |-> "local"]
      [] o.kind = "notfound" ->
           [success |-> FALSE, error |-> "pytest not found. Install with: pip install pytest",
            tests_run |-> 0, tests_passed |-> 0, tests_failed |-> 0,
            execution_mode |-> "local"]
      [] OTHER ->
           [success |-> (o.rc = 0), tests_run |-> o.PASSED + o.FAILED,
            tests_passed |-> o.PASSED, tests_failed |-> o.FAILED,
            exit_code |-> o.rc, execution_mode |-> "local"]

_run_python_tests_locally(o) ==
    CASE o.kind = "timeout" ->
           [success |-> FALSE, error |-> "Test execution timeout (>2 minutes)",
            tests_run |-> 0, tests_passed |-> 0, tests_failed |-> 0,
            execution_time |-> LocalPytestTimeout, execution_mode |-> "local"]
      [] o.kind = "notfound" ->
           [success |-> FALSE, error |-> "pytest not found. Install with: pip install pytest",
            tests_run |-> 0, tests_passed |-> 0, tests_failed |-> 0,
            execution_mode |-> "local"]
      [] OTHER ->
           [success |-> (o.rc = 0), tests_run |-> o.PASSED + o.FAILED + o.ERROR,
            tests_passed |-> o.PASSED, tests_failed |-> o.FAILED,
            tests_errors |-> o.ERROR, exit_code |-> o.rc, execution_mode |-> "local"]

_run_java_tests_locally(o) ==
    CASE o.kind = "notfound" ->
           [success |-> FALSE, error |-> "Java compiler (javac) not found. Install JDK.",
            tests_run |-> 0, tests_passed |-> 0, tests_failed |-> 0,
            execution_mode |-> "local"]
      [] o.kind = "timeout" ->
           [success |-> FALSE, error |-> "Java test execution timeout",
            tests_run |-> 0, tests_passed |-> 0, tests_failed |-> 0,
            execution_mode |-> "local"]
      [] o.kind = "compile_failed" ->
           [success |-> FALSE, error |-> "Compilation failed: <stderr>",
            tests_run |-> 0, tests_passed |-> 0, tests_failed |-> 0,
            execution_mode |-> "local"]
      [] OTHER ->
           [success |-> (o.rc = 0), tests_run |-> 1,
            tests_passed |-> IF o.rc = 0 THEN 1 ELSE 0,
            tests_failed |-> IF o.rc = 0 THEN 0 ELSE 1,
            exit_code |-> o.rc, execution_mode |-> "local"]

_run_js_tests_locally(o) ==
    CASE o.kind = "notfound" ->
           [success |-> FALSE, error |-> "Node.js not found. Install Node.js.",
            tests_run |-> 0, tests_passed |-> 0, tests_failed |-> 0,
            execution_mode |-> "local"]
      [] o.kind = "timeout" ->
           [success |-> FALSE, error |-> "JavaScript test execution timeout",
            tests_run |-> 0, tests_passed |-> 0, tests_failed |-> 0,
            execution_mode |-> "local"]
      [] OTHER ->
           [success |-> (o.rc = 0), tests_run |-> 1,
            tests_passed |-> IF o.rc = 0 THEN 1 ELSE 0,
            tests_failed |-> IF o.rc = 0 THEN 0 ELSE 1,
            exit_code |-> o.rc, execution_mode |-> "local"]

\* the dispatch of run_tests_locally on a completed or handled process outcome
LocalResult(language, o) ==
    CASE language = "python" -> _run_python_tests_locally(o)
      [] language = "java" -> _run_java_tests_locally(o)
      [] OTHER -> _run_js_tests_locally(o)

\* where the local run ended: "timeout", "notfound", "compile" (javac failed),
\* or the test process ran to its end and its output was read ("parsed")
LocalStage(o) ==
    CASE o.kind = "done" -> "parsed"
      [] o.kind = "compile_failed" -> "compile"
      [] OTHER -> o.kind

(***************************************************************************)
(* Values in flight.                                                       *)
(***************************************************************************)
NoReq == [none |-> TRUE]
NoOracle == [none |-> TRUE]
NoRet == [kind |-> "none"]
NoResult == [none |-> TRUE]
\* the history of one public call: execute_in_modal and run_tests_locally
\* invocations, whether the remote backend failed (sandbox creation, upload or
\* exec raised), whether a pip install failed, temporary directories and
\* sandboxes created, the outcome of the last test command, the programs
\* subprocess.run did not find (FileNotFoundError);
\* prior_remote_failure: the remote backend failed in an earlier call on this
\* instance
NoTrace == [modal_calls |-> 0, local_calls |-> 0, remote_failed |-> FALSE,
            pip_failed |-> FALSE, dirs |-> 0, boxes |-> 0,
            outcome |-> [kind |-> "none"], missing |-> {},
            prior_remote_failure |-> FALSE]

\* the program of the build or test command that outcome o says was not found
TestCommand(backend, language, o) ==
    IF backend = "runner"
    THEN CASE language = "python" -> "pytest"
           [] language = "java" -> "mvn"
           [] OTHER -> "npm"
    ELSE CASE language = "python" -> "pytest"
           [] language = "java" -> o.at
           [] OTHER -> "node"

NotFound(backend, language, o) ==
    IF o.kind = "notfound" THEN {TestCommand(backend, language, o)} ELSE {}

\* a returned dict / a raised exception, with the step at which the run ended
Value(v, stage) == [kind |-> "value", value |-> v, stage |-> stage]
Raise(msg, stage) == [kind |-> "raise", msg |-> msg, stage |-> stage]

\* an exception that leaves a public operation
Raised(msg) == [raised |-> msg]

\* the trace a validate_transformation call starts with
FreshTrace(t) == [NoTrace EXCEPT !.prior_remote_failure = t.prior_remote_failure]

IsDict(r) == "success" \in DOMAIN r

\* d[k] = v on a dict
Set(d, k, v) == [x \in DOMAIN d \cup {k} |-> IF x = k THEN v ELSE d[x]]

\* the variables of the orchestrator
orch == <<idx, validation_results, errors, visited>>

\* what a step of the sandbox package leaves alone
env == <<environ, MODAL_AVAILABLE, MODAL_EXECUTOR_AVAILABLE, prefer_modal, orch>>

\* the outcomes a local step can take: any, or the one the oracle fixed
Choices(step, S) == IF oracle = NoOracle THEN S ELSE {oracle[step]}

(***************************************************************************)
(* config.py and ModalSandboxValidator.__init__.  The constructor reads    *)
(* its prefer_modal argument ("None", "True", "False"), EXECUTION_MODE     *)
(* ("": not set), whether the host is a Hugging Face Space (SPACE_ID or    *)
(* SYSTEM=spaces) and whether Modal credentials are present (token         *)
(* variables or ~/.modal.toml).                                            *)
(***************************************************************************)
Environs ==
    [prefer_modal : {"None", "True", "False"},
     EXECUTION_MODE : {"", "modal", "local", "auto", "MODAL", "docker"},
     huggingface : BOOLEAN,
     modal_configured : BOOLEAN]

NoEnviron == [none |-> TRUE]

\* str.lower() on the values of EXECUTION_MODE
Lower(str) == IF str = "MODAL" THEN "modal" ELSE str

is_huggingface_space(e) == e.huggingface

is_modal_configured(e) == e.modal_configured

\* a variant of get_execution_mode that looks at the platform before it
\* looks at EXECUTION_MODE
get_execution_mode_DetectsFirst(e) ==
    IF is_huggingface_space(e) THEN "modal"
    ELSE IF Lower(e.EXECUTION_MODE) \in {"modal", "local", "auto"}
    THEN Lower(e.EXECUTION_MODE)
    ELSE IF is_modal_configured(e) THEN "auto"
    ELSE "local"

get_execution_mode(e) ==
    IF Lower(e.EXECUTION_MODE) \in {"modal", "local", "auto"}
    THEN Lower(e.EXECUTION_MODE)
    ELSE IF is_huggingface_space(e) THEN "modal"
    ELSE IF is_modal_configured(e) THEN "auto"
    ELSE "local"

\* a variant of should_prefer_modal that looks at the credentials only
should_prefer_modal_CredentialsOnly(e) == is_modal_configured(e)

should_prefer_modal(e) ==
    CASE get_execution_mode(e) = "modal" -> TRUE
      [] get_execution_mode(e) = "local" -> FALSE
      [] OTHER -> is_modal_configured(e)

\* self.prefer_modal as __init__ sets it
InitialPreference(e, sdk) ==
    LET preference == IF e.prefer_modal = "None" THEN should_prefer_modal(e)
                      ELSE e.prefer_modal = "True"
    IN  preference /\ sdk

(***************************************************************************)
(* Initial state: __init__ has returned a ModalSandboxValidator; what it   *)
(* read is kept readable until Release.                                    *)
(***************************************************************************)
Init ==
    /\ environ \in Environs
    /\ MODAL_AVAILABLE \in BOOLEAN
    /\ MODAL_EXECUTOR_AVAILABLE \in {b \in BOOLEAN : b => MODAL_AVAILABLE}
    /\ prefer_modal = InitialPreference(environ, MODAL_AVAILABLE)
    /\ op = "__init__" /\ ctx = "none" /\ pc = "done"
    /\ req = NoReq /\ oracle = NoOracle /\ ret = NoRet /\ result = NoResult
    /\ transformations = <<>> /\ results = <<>>
    /\ phase = 0 /\ codes = <<>> /\ original_results = NoResult
    /\ tmpdirs = 0 /\ sandboxes = 0 /\ trace = NoTrace
    /\ idx = 0 /\ validation_results = <<>> /\ errors = <<>> /\ visited = <<>>

(***************************************************************************)
(* Entering a backend from the try block c of the facade with request r;   *)
(* t is the history of the public call so far.  execute_in_modal catches   *)
(* every Exception itself, so the except branch of run_tests_in_sandbox    *)
(* has nothing to catch; _detect_language only yields the four supported   *)
(* languages, so the "unsupported" results are never built.                *)
(***************************************************************************)
run_tests_locally(c, r, t) ==
    /\ ctx' = c /\ req' = r /\ ret' = NoRet
    /\ pc' = "loc_mkdtemp"
    /\ trace' = [t EXCEPT !.local_calls = @ + 1]

run_tests_in_sandbox(c, r, t) ==
    IF MODAL_EXECUTOR_AVAILABLE
    THEN /\ ctx' = c /\ req' = r /\ ret' = NoRet
         /\ pc' = "em_create"
         /\ trace' = [t EXCEPT !.modal_calls = @ + 1]
    ELSE run_tests_locally(c, r, t)

(***************************************************************************)
(* execute_in_modal: create the sandbox, run the language executor, and    *)
(* terminate the sandbox in the finally block.                             *)
(***************************************************************************)
\* a variant of EM_Create that gives up the remote backend for good once
\* the creation of a sandbox has failed
EM_Create_Downgrade ==
    /\ pc = "em_create"
    /\ \E o \in {"ok", "raise"} :
         IF o = "ok"
         THEN /\ sandboxes' = sandboxes + 1
              /\ trace' = [trace EXCEPT !.boxes = @ + 1]
              /\ pc' = "em_exec"
              /\ UNCHANGED <<ret, prefer_modal>>
         ELSE /\ ret' = Value(ModalSandboxError(req.language), "create")
              /\ trace' = [trace EXCEPT !.remote_failed = TRUE]
              /\ pc' = "ret"
              /\ prefer_modal' = FALSE
              /\ UNCHANGED sandboxes
    /\ UNCHANGED <<environ, MODAL_AVAILABLE, MODAL_EXECUTOR_AVAILABLE, op, ctx, req, oracle,
                   result, transformations, results, phase, codes, original_results,
                   tmpdirs, orch>>

EM_Create ==
    /\ pc = "em_create"
    /\ \E o \in {"ok", "raise"} :
         IF o = "ok"
         THEN /\ sandboxes' = sandboxes + 1
              /\ trace' = [trace EXCEPT !.boxes = @ + 1]
              /\ pc' = "em_exec"
              /\ UNCHANGED ret
         ELSE /\ ret' = Value(ModalSandboxError(req.language), "create")
              /\ trace' = [trace EXCEPT !.remote_failed = TRUE]
              /\ pc' = "ret"
              /\ UNCHANGED sandboxes
    /\ UNCHANGED <<env, op, ctx, req, oracle, result, transformations, results,
                   phase, codes, original_results, tmpdirs>>

\* a variant of EM_Exec in which sb.terminate() follows the executor call
\* instead of standing in a finally block: a raising executor skips it
EM_Exec_NoFinally ==
    /\ pc = "em_exec"
    /\ \E o \in RemoteOutcomes(req.language) :
         /\ ret' = Value(Set(ExecutorResult(req.language, o), "execution_mode", "modal"),
                         RemoteStage(o))
         /\ trace' = [trace EXCEPT !.remote_failed = (@ \/ o.kind = "raise"),
                                   !.outcome = o]
         /\ pc' = IF o.kind = "raise" THEN "ret" ELSE "em_term"
    /\ UNCHANGED <<env, op, ctx, req, oracle, result, transformations, results,
                   phase, codes, original_results, tmpdirs, sandboxes>>

EM_Exec ==
    /\ pc = "em_exec"
    /\ \E o \in RemoteOutcomes(req.language) :
         /\ ret' = Value(Set(ExecutorResult(req.language, o), "execution_mode", "modal"),
                         RemoteStage(o))
         /\ trace' = [trace EXCEPT !.remote_failed = (@ \/ o.kind = "raise"),
                                   !.outcome = o]
    /\ pc' = "em_term"
    /\ UNCHANGED <<env, op, ctx, req, oracle, result, transformations, results,
                   phase, codes, original_results, tmpdirs, sandboxes>>

EM_Terminate ==
    /\ pc = "em_term"
    /\ sandboxes' = sandboxes - 1
    /\ pc' = "ret"
    /\ UNCHANGED <<env, op, ctx, req, oracle, ret, result, transformations, results,
                   phase, codes, original_results, tmpdirs, trace>>

(***************************************************************************)
(* _run_*_tests_locally: the with tempfile.TemporaryDirectory() block.     *)
(***************************************************************************)
Loc_Mkdtemp ==
    /\ pc = "loc_mkdtemp"
    /\ \E o \in Choices("mkdtemp", {"ok", "raise"}) :
         IF o = "ok"
         THEN /\ tmpdirs' = tmpdirs + 1
              /\ trace' = [trace EXCEPT !.dirs = @ + 1]
              /\ pc' = "loc_scaffold"
              /\ UNCHANGED ret
         ELSE /\ ret' = Raise("OSError: cannot create the temporary directory", "mkdtemp")
              /\ pc' = "ret"
              /\ UNCHANGED <<tmpdirs, trace>>
    /\ UNCHANGED <<env, op, ctx, req, oracle, result, transformations, results,
                   phase, codes, original_results, sandboxes>>

Loc_Scaffold ==
    /\ pc = "loc_scaffold"
    /\ \E o \in Choices("scaffold", {"ok", "raise"}) :
         IF o = "ok"
         THEN /\ pc' = IF req.language = "python" /\ req.requirements # {}
                       THEN "loc_install" ELSE "loc_test"
              /\ UNCHANGED ret
         ELSE /\ ret' = Raise("OSError: cannot write the project files", "scaffold")
              /\ pc' = "loc_exit"
    /\ UNCHANGED <<env, op, ctx, req, oracle, result, transformations, results,
                   phase, codes, original_results, tmpdirs, sandboxes, trace>>

\* a variant of Loc_Install with pip run under check=True and no handler
\* around it: a failed install ends the run with an exception
Loc_Install_Fatal ==
    /\ pc = "loc_install"
    /\ \E o \in Choices("install", InstallOutcomes) :
         /\ trace' = [trace EXCEPT !.pip_failed = (@ \/ o # "ok"),
                                   !.missing = IF o = "notfound" THEN @ \cup {"pip"} ELSE @]
         /\ pc' = IF o = "ok" THEN "loc_test" ELSE "loc_exit"
         /\ ret' = IF o = "ok" THEN ret
                   ELSE Raise("CalledProcessError: pip install failed", "install")
    /\ UNCHANGED <<env, op, ctx, req, oracle, result, transformations, results,
                   phase, codes, original_results, tmpdirs, sandboxes>>

Loc_Install ==
    /\ pc = "loc_install"
    /\ \E o \in Choices("install", InstallOutcomes) :
         trace' = [trace EXCEPT !.pip_failed = (@ \/ o # "ok"),
                                !.missing = IF o = "notfound" THEN @ \cup {"pip"} ELSE @]
    /\ pc' = "loc_test"
    /\ UNCHANGED <<env, op, ctx, req, oracle, ret, result, transformations, results,
                   phase, codes, original_results, tmpdirs, sandboxes>>

Loc_Test ==
    /\ pc = "loc_test"
    /\ \E o \in Choices("test", LocalOutcomes(req.language)) :
         /\ ret' = IF o.kind = "raise"
                   THEN Raise("OSError: cannot start the process", "process")
                   ELSE Value(LocalResult(req.language, o), LocalStage(o))
         /\ trace' = [trace EXCEPT !.outcome = o,
                                   !.missing = @ \cup NotFound("local", req.language, o)]
    /\ pc' = "loc_exit"
    /\ UNCHANGED <<env, op, ctx, req, oracle, result, transformations, results,
                   phase, codes, original_results, tmpdirs, sandboxes>>

\* a variant of Loc_Exit for a directory made with mkdtemp and removed at
\* the end of the function body: an exception leaves it behind
Loc_Exit_LeakOnRaise ==
    /\ pc = "loc_exit"
    /\ tmpdirs' = IF ret.kind = "raise" THEN tmpdirs ELSE tmpdirs - 1
    /\ pc' = "ret"
    /\ UNCHANGED <<env, op, ctx, req, oracle, ret, result, transformations, results,
                   phase, codes, original_results, sandboxes, trace>>

Loc_Exit ==
    /\ pc = "loc_exit"
    /\ tmpdirs' = tmpdirs - 1
    /\ pc' = "ret"
    /\ UNCHANGED <<env, op, ctx, req, oracle, ret, result, transformations, results,
                   phase, codes, original_results, sandboxes, trace>>

(***************************************************************************)
(* ModalSandboxValidator.validate_transformation.  original_code is not    *)
(* read by the method.  requirements is [given |-> FALSE] for None.        *)
(***************************************************************************)
RequirementArgs == {[given |-> FALSE],
                    [given |-> TRUE, list |-> {}],
                    [given |-> TRUE, list |-> {"pytest-mock"}]}

Request(file_path, code, tests, requirements) ==
    LET language == _detect_language(file_path, code)
    IN  [language |-> language,
         tests |-> tests,
         requirements |-> IF requirements.given THEN requirements.list
                          ELSE _extract_requirements(code, language),
         module_name |-> ModuleName(file_path),
         file_path |-> file_path]

\* a variant of validate_transformation that looks at MODAL_AVAILABLE only
validate_transformation_IgnoresPreference(file_path, code, tests, requirements) ==
    IF MODAL_AVAILABLE
    THEN run_tests_in_sandbox("vt_modal", Request(file_path, code, tests, requirements),
                              FreshTrace(trace))
    ELSE run_tests_locally("vt_local", Request(file_path, code, tests, requirements),
                           FreshTrace(trace))

\* lines 449-477 and 487-495: up to the call of the first backend
validate_transformation(file_path, code, tests, requirements) ==
    IF prefer_modal /\ MODAL_AVAILABLE
    THEN run_tests_in_sandbox("vt_modal", Request(file_path, code, tests, requirements),
                              FreshTrace(trace))
    ELSE run_tests_locally("vt_local", Request(file_path, code, tests, requirements),
                           FreshTrace(trace))

\* the except handler of the local try block
LocalValidationError(msg) ==
    [success |-> FALSE, error |-> msg, tests_run |-> 0, tests_passed |-> 0,
     tests_failed |-> 0, execution_mode |-> "failed"]

\* modernized / max(original, 1), rounded to thousandths
PassedRatio(original, modernized) ==
    LET d == IF original > 1 THEN original ELSE 1
    IN  (2000 * modernized + d) \div (2 * d)

\* a variant of EquivalenceScore that does not look at the success flags
EquivalenceScore_Ungated(o, m) ==
    IF o.tests_passed = m.tests_passed THEN 1000
    ELSE PassedRatio(o.tests_passed, m.tests_passed)

\* equivalence_score in thousandths: round(modernized / max(original, 1), 3)
EquivalenceScore(o, m) ==
    IF o.success /\ m.success
    THEN IF o.tests_passed = m.tests_passed
         THEN 1000
         ELSE LET d == IF o.tests_passed > 1 THEN o.tests_passed ELSE 1
              IN  (2000 * m.tests_passed + d) \div (2 * d)
    ELSE 0

\* equivalence_score >= 0.95, on the score before it is rounded
EquivalenceHolds(o, m) ==
    /\ o.success /\ m.success
    /\ \/ o.tests_passed = m.tests_passed
       \/ 100 * m.tests_passed
            >= 95 * (IF o.tests_passed > 1 THEN o.tests_passed ELSE 1)

EquivalenceResult(o, m) ==
    [behavioral_equivalence |-> EquivalenceHolds(o, m),
     equivalence_score |-> EquivalenceScore(o, m),
     original_results |-> o,
     modernized_results |-> m]

ValidateTransformation ==
    /\ pc = "idle"
    /\ \E u \in Units, ra \in RequirementArgs :
         \E tests \in FacadeTests(_detect_language(u.file_path, u.modernized_code)) :
           LET r == Request(u.file_path, u.modernized_code, tests, ra)
           IN  /\ validate_transformation(u.file_path, u.modernized_code, tests, ra)
               /\ oracle' \in LocalWorlds(r.language, r.requirements)
    /\ op' = "validate_transformation"
    /\ UNCHANGED <<env, result, transformations, results, phase, codes,
                   original_results, tmpdirs, sandboxes>>

\* the pytest text built from the test cases: "import pytest" and one
\* test_equivalence_<i> function per case
_generate_equivalence_test(test_cases) ==
    IF test_cases = <<>> THEN {"import"} ELSE {"import", "def test_"}

\* the test-case lists: the empty list and a list of one case
TestCaseLists == {<<>>, <<[description |-> "adds"]>>}

\* test_behavioral_equivalence up to its first validate_transformation call
TestBehavioralEquivalence ==
    /\ pc = "idle"
    /\ \E original_code \in Codes, modernized_code \in Codes, test_cases \in TestCaseLists :
         /\ codes' = <<original_code, modernized_code>>
         /\ validate_transformation(NoPath, original_code,
                                    _generate_equivalence_test(test_cases),
                                    [given |-> FALSE])
    /\ op' = "test_behavioral_equivalence"
    /\ phase' = 1
    /\ UNCHANGED <<env, oracle, result, transformations, results, original_results,
                   tmpdirs, sandboxes>>

\* validate_transformation returns r to its caller
VTReturn(r) ==
    CASE op = "validate_transformation" ->
           /\ pc' = "done"
           /\ result' = r
           /\ UNCHANGED <<op, ctx, req, ret, oracle, trace, phase, codes,
                          original_results>>
      [] op = "test_behavioral_equivalence" /\ phase = 1 ->
           /\ original_results' = r
           /\ phase' = 2
           /\ validate_transformation(NoPath, codes[2], req.tests, [given |-> FALSE])
           /\ UNCHANGED <<op, oracle, result, codes>>
      [] op = "test_behavioral_equivalence" /\ phase = 2 ->
           /\ pc' = "done"
           /\ result' = EquivalenceResult(original_results, r)
           /\ UNCHANGED <<op, ctx, req, ret, oracle, trace, phase, codes,
                          original_results>>
      [] op = "modernize_repository" ->
           /\ pc' = "p5_ret"
           /\ result' = r
           /\ UNCHANGED <<op, ctx, req, ret, oracle, trace, phase, codes,
                          original_results>>

\* lines 479-481: the remote try block got a result
VT_ModalReturn ==
    /\ pc = "ret" /\ ctx = "vt_modal" /\ ret.kind = "value"
    /\ VTReturn(Set(ret.value, "execution_mode", "modal"))
    /\ UNCHANGED <<env, transformations, results, tmpdirs, sandboxes>>

\* lines 483-495: run_tests_in_sandbox raised, the local try block is entered
VT_ModalExcept ==
    /\ pc = "ret" /\ ctx = "vt_modal" /\ ret.kind = "raise"
    /\ run_tests_locally("vt_local", req, trace)
    /\ UNCHANGED <<env, op, oracle, result, transformations, results, phase, codes,
                   original_results, tmpdirs, sandboxes>>

\* lines 497-498
VT_LocalReturn ==
    /\ pc = "ret" /\ ctx = "vt_local" /\ ret.kind = "value"
    /\ VTReturn(ret.value)
    /\ UNCHANGED <<env, transformations, results, tmpdirs, sandboxes>>

\* a variant of VT_LocalExcept without the handler: the exception of the
\* local backend leaves validate_transformation
VT_LocalExcept_Propagates ==
    /\ pc = "ret" /\ ctx = "vt_local" /\ ret.kind = "raise"
    /\ VTReturn(Raised(ret.msg))
    /\ UNCHANGED <<env, transformations, results, tmpdirs, sandboxes>>

\* lines 500-509
VT_LocalExcept ==
    /\ pc = "ret" /\ ctx = "vt_local" /\ ret.kind = "raise"
    /\ VTReturn(LocalValidationError(ret.msg))
    /\ UNCHANGED <<env, transformations, results, tmpdirs, sandboxes>>

(***************************************************************************)
(* ModalSandboxValidator.validate_batch.  An item is a dict with           *)
(* file_path and modernized_code (and tests); it has no requirements key,  *)
(* so t.get('requirements', []) is [].  With such items nothing raises     *)
(* outside the per-item try blocks, so the outer handler (lines 560-562)   *)
(* is not entered.                                                         *)
(***************************************************************************)
BatchUnits ==
    {[file_path |-> u.file_path, modernized_code |-> u.modernized_code,
      tests |-> CHOOSE t \in FacadeTests(_detect_language(u.file_path, u.modernized_code)) :
                  ValidateTests(_detect_language(u.file_path, u.modernized_code), t).ok] :
       u \in {v \in Units : v.file_path.suffix \in {".py", ".java", ".ts"}}}

BatchInputs == UNION {[1..n -> BatchUnits] : n \in 0..MaxBatch}

BatchRequest(t) ==
    Request(t.file_path, t.modernized_code, t.tests, [given |-> TRUE, list |-> {}])

\* the except handlers of the per-item try blocks
BatchItemError(file_path, msg, mode) ==
    [file_path |-> file_path, success |-> FALSE, error |-> msg, execution_mode |-> mode]

ValidateBatch ==
    /\ pc = "idle"
    /\ \E ts \in BatchInputs : transformations' = ts
    /\ op' = "validate_batch"
    /\ results' = <<>>
    /\ ctx' = IF prefer_modal /\ MODAL_AVAILABLE THEN "vb_modal" ELSE "vb_local"
    /\ pc' = "vb_loop"
    /\ UNCHANGED <<env, req, oracle, ret, result, trace, phase, codes,
                   original_results, tmpdirs, sandboxes>>

\* a variant of VB_Next that takes any item of the batch, whether or not the
\* items before it have been recorded
VB_Next_AnyItem ==
    /\ pc = "vb_loop"
    /\ Len(results) < Len(transformations)
    /\ \E i \in 1..Len(transformations) :
         IF ctx = "vb_modal"
         THEN run_tests_in_sandbox("vb_modal", BatchRequest(transformations[i]), trace)
         ELSE run_tests_locally("vb_local", BatchRequest(transformations[i]), trace)
    /\ UNCHANGED <<env, op, oracle, result, transformations, results, phase, codes,
                   original_results, tmpdirs, sandboxes>>

\* the for loops: the next item is the one after the results recorded so far
VB_Next ==
    /\ pc = "vb_loop"
    /\ Len(results) < Len(transformations)
    /\ IF ctx = "vb_modal"
       THEN run_tests_in_sandbox("vb_modal", BatchRequest(transformations[Len(results) + 1]), trace)
       ELSE run_tests_locally("vb_local", BatchRequest(transformations[Len(results) + 1]), trace)
    /\ UNCHANGED <<env, op, oracle, result, transformations, results, phase, codes,
                   original_results, tmpdirs, sandboxes>>

VB_ModalAppend ==
    /\ pc = "ret" /\ ctx = "vb_modal" /\ ret.kind = "value"
    /\ results' = Append(results, Set(Set(ret.value, "file_path", req.file_path),
                                      "execution_mode", "modal"))
    /\ pc' = "vb_loop"
    /\ UNCHANGED <<env, op, ctx, req, oracle, ret, result, transformations, phase, codes,
                   original_results, tmpdirs, sandboxes, trace>>

VB_ModalExcept ==
    /\ pc = "ret" /\ ctx = "vb_modal" /\ ret.kind = "raise"
    /\ results' = Append(results, BatchItemError(req.file_path, ret.msg, "modal_failed"))
    /\ pc' = "vb_loop"
    /\ UNCHANGED <<env, op, ctx, req, oracle, ret, result, transformations, phase, codes,
                   original_results, tmpdirs, sandboxes, trace>>

VB_LocalAppend ==
    /\ pc = "ret" /\ ctx = "vb_local" /\ ret.kind = "value"
    /\ results' = Append(results, Set(ret.value, "file_path", req.file_path))
    /\ pc' = "vb_loop"
    /\ UNCHANGED <<env, op, ctx, req, oracle, ret, result, transformations, phase, codes,
                   original_results, tmpdirs, sandboxes, trace>>

\* a variant of VB_LocalExcept with the handler around the loop instead of
\* inside it: the first exception ends the loop with the results so far
VB_LocalExcept_EndsLoop ==
    /\ pc = "ret" /\ ctx = "vb_local" /\ ret.kind = "raise"
    /\ pc' = "done"
    /\ result' = [batch |-> results]
    /\ UNCHANGED <<env, op, ctx, req, oracle, ret, transformations, results, phase,
                   codes, original_results, tmpdirs, sandboxes, trace>>

VB_LocalExcept ==
    /\ pc = "ret" /\ ctx = "vb_local" /\ ret.kind = "raise"
    /\ results' = Append(results, BatchItemError(req.file_path, ret.msg, "local_failed"))
    /\ pc' = "vb_loop"
    /\ UNCHANGED <<env, op, ctx, req, oracle, ret, result, transformations, phase, codes,
                   original_results, tmpdirs, sandboxes, trace>>

VB_Return ==
    /\ pc = "vb_loop"
    /\ Len(results) >= Len(transformations)
    /\ pc' = "done"
    /\ result' = [batch |-> results]
    /\ UNCHANGED <<env, op, ctx, req, ret, oracle, transformations, results, phase,
                   codes, original_results, tmpdirs, sandboxes, trace>>

(***************************************************************************)
(* The language runners: runners/python_runner.py, java_runner.py and      *)
(* javascript_runner.py.                                                   *)
(***************************************************************************)
\* the dict every early return of the runners builds
RunnerFailure(language, msg) ==
    [success |-> FALSE, error |-> msg, tests_run |-> 0, tests_passed |-> 0,
     tests_failed |-> 0, execution_mode |-> "modal", language |-> language]

\* how often " PASSED\n", " FAILED\n", " ERROR\n", " SKIPPED\n" occur in stdout
PytestLines ==
    {l \in [PASSED : Counts, FAILED : Counts, ERROR : Counts, SKIPPED : Counts] :
        l.PASSED + l.FAILED + l.ERROR + l.SKIPPED <= MaxCount}

RunnerPythonOutcomes ==
    [kind : {"timeout", "notfound", "raise"}]
    \cup [kind : {"done"}, rc : {0, 1}, summary : PytestSummaries, lines : PytestLines]

\* Maven's output: a build-failure marker, and the first Surefire line
\* "Tests run: X, Failures: Y, Errors: Z, Skipped: W"
SurefireLines ==
    {[kind |-> "none"]}
    \cup {m \in [kind : {"line"}, run : Counts, failures : Counts, errors : Counts,
                 skipped : Counts] :
            m.failures + m.errors + m.skipped <= m.run}

RunnerJavaOutcomes ==
    [kind : {"timeout", "notfound", "raise"}]
    \cup [kind : {"done"}, rc : {0, 1},
          marker : {"none", "BUILD FAILURE", "COMPILATION ERROR"},
          surefire : SurefireLines]

\* Jest's "Tests: 1 failed, 1 skipped, 1 todo, 2 passed, 5 total" line and
\* whether a "Test Suites: N failed" line is there
JestTestsLines ==
    {[kind |-> "none"]}
    \cup {m \in [kind : {"line"}, failed : Counts, skipped : Counts, todo : Counts,
                 passed : Counts, total : Counts] :
            m.failed + m.skipped + m.todo + m.passed = m.total}

RunnerJsOutcomes ==
    [kind : {"timeout", "notfound", "raise"}]
    \cup [kind : {"done"}, rc : {0, 1}, tests_line : JestTestsLines,
          suites_failed : BOOLEAN]

RunnerOutcomes(language) ==
    CASE language = "python" -> RunnerPythonOutcomes
      [] language = "java" -> RunnerJavaOutcomes
      [] OTHER -> RunnerJsOutcomes

\* python_runner.py lines 123-219
run_python_tests(o) ==
    CASE o.kind = "timeout" ->
           Set(RunnerFailure("python", "Test execution timeout (>2 minutes)"),
               "execution_time", RunnerPytestTimeout)
      [] o.kind = "notfound" -> RunnerFailure("python", "pytest not found in container")
      [] OTHER ->
           LET fromSummary == IF o.summary.kind = "line"
                              THEN o.summary.passed + o.summary.failed
                                   + o.summary.error + o.summary.skipped
                              ELSE 0
               fallback == fromSummary = 0
           IN  [success |-> (o.rc = 0),
                tests_run |-> IF fallback
                              THEN o.lines.PASSED + o.lines.FAILED + o.lines.ERROR
                              ELSE fromSummary,
                tests_passed |-> IF fallback THEN o.lines.PASSED ELSE o.summary.passed,
                tests_failed |-> IF fallback THEN o.lines.FAILED ELSE o.summary.failed,
                tests_errors |-> IF fallback THEN o.lines.ERROR ELSE o.summary.error,
                tests_skipped |-> IF fallback THEN o.lines.SKIPPED ELSE o.summary.skipped,
                exit_code |-> o.rc, execution_mode |-> "modal", language |-> "python"]

\* java_runner.py lines 241-350
run_java_tests(o) ==
    CASE o.kind = "timeout" ->
           Set(RunnerFailure("java", "Maven test execution timeout (>5 minutes)"),
               "execution_time", RunnerMavenTimeout)
      [] o.kind = "notfound" -> RunnerFailure("java", "Maven (mvn) not found in container")
      [] o.kind = "done" /\ o.marker = "COMPILATION ERROR" ->
           RunnerFailure("java", "Java compilation error")
      [] o.kind = "done" /\ o.marker = "BUILD FAILURE" ->
           RunnerFailure("java", "Maven build failed")
      [] o.kind = "done" /\ o.marker = "none" /\ o.surefire.kind = "none" /\ o.rc = 0 ->
           RunnerFailure("java",
               "No tests detected by Maven Surefire (missing @Test annotations?)")
      [] OTHER ->
           LET m == o.surefire
               tests_run == IF m.kind = "line" THEN m.run ELSE 0
               tests_errors == IF m.kind = "line" THEN m.errors ELSE 0
               tests_skipped == IF m.kind = "line" THEN m.skipped ELSE 0
               tests_failed == IF m.kind = "line" THEN m.failures + m.errors ELSE 0
           IN  [success |-> (o.rc = 0),
                tests_run |-> tests_run,
                tests_passed |-> tests_run - tests_failed - tests_skipped,
                tests_failed |-> tests_failed,
                tests_errors |-> tests_errors,
                tests_skipped |-> tests_skipped,
                exit_code |-> o.rc, execution_mode |-> "modal", language |-> "java"]

\* javascript_runner.py lines 216-318
run_javascript_tests(o, language) ==
    CASE o.kind = "timeout" ->
           Set(RunnerFailure(language, "Test execution timeout: <e>"),
               "execution_time", RunnerJestTimeoutReported)
      [] o.kind = "notfound" -> RunnerFailure(language, "Node.js/npm not found in container")
      [] OTHER ->
           LET m == o.tests_line
               tests_run == IF m.kind = "line" THEN m.total ELSE 0
               passed == IF m.kind = "line" THEN m.passed ELSE 0
               tests_failed == IF m.kind = "line" THEN m.failed ELSE 0
               tests_skipped == IF m.kind = "line" THEN m.skipped ELSE 0
               tests_passed == IF tests_run > 0 /\ passed = 0 /\ tests_failed = 0
                               THEN tests_run - tests_failed - tests_skipped
                               ELSE passed
           IN  IF o.suites_failed /\ tests_run = 0
               THEN RunnerFailure(language,
                        "Test suite failed to run (compilation/syntax error)")
               ELSE [success |-> (o.rc = 0),
                     tests_run |-> tests_run,
                     tests_passed |-> tests_passed,
                     tests_failed |-> tests_failed,
                     exit_code |-> o.rc, execution_mode |-> "modal",
                     language |-> language]

\* LANGUAGE_RUNNERS: the runner of a language on the outcome of its test command
RunnerResult(language, o) ==
    CASE language = "python" -> run_python_tests(o)
      [] language = "java" -> run_java_tests(o)
      [] OTHER -> run_javascript_tests(o, language)

\* where the runner's run ended
RunnerStage(o) == IF o.kind = "done" THEN "parsed" ELSE o.kind

\* what a raising call leaves its caller with
\* npm install of the Jest runner
NpmInstallOutcomes == {"ok", "nonzero", "timeout", "notfound", "raise"}

(***************************************************************************)
(* One call of a language runner: the structural check, then the with      *)
(* tempfile.TemporaryDirectory() block: project files, install, test       *)
(* command, parsing.                                                       *)
(***************************************************************************)
\* a variant of RunTests without the structural check: every test text
\* goes on to the temporary directory
RunTests_NoCheck ==
    /\ pc = "idle"
    /\ \E language \in Languages, tests \in TestTexts, requirements \in {{}, {"requests"}} :
         req' = [language |-> language, requirements |-> requirements, tests |-> tests]
    /\ pc' = "rn_mkdtemp"
    /\ op' = "run_tests"
    /\ ctx' = "runner"
    /\ UNCHANGED <<env, oracle, ret, result, transformations, results, phase, codes,
                   original_results, tmpdirs, sandboxes, trace>>

RunTests ==
    /\ pc = "idle"
    /\ \E language \in Languages, tests \in TestTexts, requirements \in {{}, {"requests"}} :
         LET v == ValidateTests(language, tests)
         IN  /\ req' = [language |-> language, requirements |-> requirements,
                        tests |-> tests]
             /\ pc' = IF v.ok THEN "rn_mkdtemp" ELSE "done"
             /\ ret' = IF v.ok THEN ret
                       ELSE Value(RunnerFailure(language,
                                      "Test validation failed: " \o v.msg), "rejected")
             /\ result' = IF v.ok THEN result
                          ELSE RunnerFailure(language, "Test validation failed: " \o v.msg)
    /\ op' = "run_tests"
    /\ ctx' = "runner"
    /\ UNCHANGED <<env, oracle, transformations, results, phase, codes,
                   original_results, tmpdirs, sandboxes, trace>>

RN_Mkdtemp ==
    /\ pc = "rn_mkdtemp"
    /\ \E o \in {"ok", "raise"} :
         IF o = "ok"
         THEN /\ tmpdirs' = tmpdirs + 1
              /\ trace' = [trace EXCEPT !.dirs = @ + 1]
              /\ pc' = "rn_scaffold"
              /\ UNCHANGED <<ret, result>>
         ELSE /\ ret' = Raise("OSError: cannot create the temporary directory", "mkdtemp")
              /\ result' = Raised("OSError: cannot create the temporary directory")
              /\ pc' = "done"
              /\ UNCHANGED <<tmpdirs, trace>>
    /\ UNCHANGED <<env, op, ctx, req, oracle, transformations, results, phase, codes,
                   original_results, sandboxes>>

\* python_runner.py writes the files outside any try; java_runner.py and
\* javascript_runner.py turn an exception into "Project setup failed"
RN_Scaffold ==
    /\ pc = "rn_scaffold"
    /\ \E o \in {"ok", "raise"} :
         IF o = "ok"
         THEN /\ pc' = IF \/ req.language = "python" /\ req.requirements # {}
                          \/ req.language \in {"javascript", "typescript"}
                       THEN "rn_install" ELSE "rn_test"
              /\ UNCHANGED ret
         ELSE /\ ret' = IF req.language = "python"
                        THEN Raise("OSError: cannot write the project files", "scaffold")
                        ELSE Value(RunnerFailure(req.language, "Project setup failed: <e>"),
                                   "scaffold")
              /\ pc' = "rn_exit"
    /\ UNCHANGED <<env, op, ctx, req, oracle, result, transformations, results,
                   phase, codes, original_results, tmpdirs, sandboxes, trace>>

\* pip install never stops run_python_tests; npm install stops
\* run_javascript_tests unless it exits with 0
RN_Install ==
    /\ pc = "rn_install"
    /\ IF req.language = "python"
       THEN /\ \E o \in InstallOutcomes :
                 trace' = [trace EXCEPT !.pip_failed = (@ \/ o # "ok"),
                                        !.missing = IF o = "notfound" THEN @ \cup {"pip"}
                                                    ELSE @]
            /\ pc' = "rn_test"
            /\ UNCHANGED ret
       ELSE \E o \in NpmInstallOutcomes :
              /\ CASE o = "ok" -> pc' = "rn_test" /\ UNCHANGED ret
                   [] o = "nonzero" ->
                        /\ ret' = Value(RunnerFailure(req.language,
                                                      "npm install failed: <stderr>"),
                                        "install")
                        /\ pc' = "rn_exit"
                   [] o = "raise" ->
                        /\ ret' = Raise("OSError: cannot start the process", "process")
                        /\ pc' = "rn_exit"
                   [] OTHER ->
                        /\ ret' = Value(run_javascript_tests([kind |-> o], req.language), o)
                        /\ pc' = "rn_exit"
              /\ trace' = [trace EXCEPT !.missing = IF o = "notfound" THEN @ \cup {"npm"}
                                                    ELSE @]
    /\ UNCHANGED <<env, op, ctx, req, oracle, result, transformations, results,
                   phase, codes, original_results, tmpdirs, sandboxes>>

RN_Test ==
    /\ pc = "rn_test"
    /\ \E o \in RunnerOutcomes(req.language) :
         /\ ret' = IF o.kind = "raise"
                   THEN Raise("OSError: cannot start the process", "process")
                   ELSE Value(RunnerResult(req.language, o), RunnerStage(o))
         /\ trace' = [trace EXCEPT !.outcome = o,
                                   !.missing = @ \cup NotFound("runner", req.language, o)]
    /\ pc' = "rn_exit"
    /\ UNCHANGED <<env, op, ctx, req, oracle, result, transformations, results,
                   phase, codes, original_results, tmpdirs, sandboxes>>

\* leaving the with block removes the directory; the runner returns or raises
RN_Exit ==
    /\ pc = "rn_exit"
    /\ tmpdirs' = tmpdirs - 1
    /\ result' = IF ret.kind = "value" THEN ret.value ELSE Raised(ret.msg)
    /\ pc' = "done"
    /\ UNCHANGED <<env, op, ctx, req, ret, oracle, transformations, results, phase,
                   codes, original_results, sandboxes, trace>>

\* The caller is done with the returned value.  The validator keeps nothing of
\* a call but prefer_modal, so the next call starts from the state after
\* construction; what the finished call left behind stays readable while
\* pc = "done".
Release ==
    /\ pc = "done"
    /\ pc' = "idle"
    /\ op' = "idle" /\ ctx' = "none"
    /\ req' = NoReq /\ oracle' = NoOracle /\ ret' = NoRet /\ result' = NoResult
    /\ trace' = [NoTrace EXCEPT !.prior_remote_failure =
                                   (trace.prior_remote_failure \/ trace.remote_failed)]
    /\ transformations' = <<>> /\ results' = <<>>
    /\ phase' = 0 /\ codes' = <<>> /\ original_results' = NoResult
    /\ environ' = NoEnviron
    /\ idx' = 0 /\ validation_results' = <<>> /\ errors' = <<>> /\ visited' = <<>>
    /\ UNCHANGED <<MODAL_AVAILABLE, MODAL_EXECUTOR_AVAILABLE, prefer_modal, tmpdirs,
                   sandboxes>>

Next ==
    \/ ValidateTransformation \/ TestBehavioralEquivalence \/ ValidateBatch
    \/ EM_Create \/ EM_Exec \/ EM_Terminate
    \/ Loc_Mkdtemp \/ Loc_Scaffold \/ Loc_Install \/ Loc_Test \/ Loc_Exit
    \/ VT_ModalReturn \/ VT_ModalExcept \/ VT_LocalReturn \/ VT_LocalExcept
    \/ VB_Next \/ VB_ModalAppend \/ VB_ModalExcept \/ VB_LocalAppend \/ VB_LocalExcept
    \/ VB_Return
    \/ RunTests \/ RN_Mkdtemp \/ RN_Scaffold \/ RN_Install \/ RN_Test \/ RN_Exit
    \/ Release

Spec == Init /\ [][Next]_vars

(***************************************************************************)
(* workflow/orchestrator.py, ModernizationOrchestrator.modernize_repository *)
(* Phase 5: for each of the first ValidationLimit transformations, generate *)
(* the tests, fix and save the files, and call validate_transformation on   *)
(* the validator the orchestrator made with ModalSandboxValidator().  The   *)
(* body of the loop is one try block; whatever raises in it is logged and   *)
(* added to results['errors'].  The auto-fix of the modernized code is left *)
(* out (the code of an item stays what it was).                             *)
(***************************************************************************)
ValidationLimit == 10

\* transformations[:10]
Selected(ts) == SubSeq(ts, 1, IF Len(ts) < ValidationLimit THEN Len(ts) ELSE ValidationLimit)

\* the files of the phase: what the loop does with an item does not depend on
\* its language, so two languages stand for all (no Python file: the pip
\* step of the local backend is not reached in this specification)
PhaseUnits == {u \in Units : u.file_path.suffix \in {".java", ".ts"}}

PhaseInputs == UNION {[1..n -> PhaseUnits] : n \in 0..MaxFiles}

\* what generate_tests gives for a file: a test text for its language (with
\* or without the test marker) or the empty string
GeneratedTests(language) == FacadeTests(language) \cup {{}}

Phase5 ==
    /\ pc = "idle"
    /\ transformations' \in PhaseInputs
    /\ op' = "modernize_repository"
    /\ idx' = 1 /\ validation_results' = <<>> /\ errors' = <<>> /\ visited' = <<>>
    /\ pc' = "p5_loop"
    /\ UNCHANGED <<environ, MODAL_AVAILABLE, MODAL_EXECUTOR_AVAILABLE, prefer_modal, ctx,
                   req, oracle, ret, result, results, phase, codes, original_results,
                   tmpdirs, sandboxes, trace>>

\* lines 348-403: the statements before the call raise (progress callback,
\* generate_tests, validate_and_fix_code, write_text), or the call is made
P5_Item ==
    /\ pc = "p5_loop"
    /\ idx <= Len(Selected(transformations))
    /\ LET t == Selected(transformations)[idx]
       IN  \/ /\ errors' = Append(errors, "Validation error: <e>")
              /\ visited' = Append(visited, "raised")
              /\ idx' = idx + 1
              /\ UNCHANGED <<ctx, req, ret, pc, trace, validation_results>>
           \/ /\ \E tests \in GeneratedTests(_detect_language(t.file_path,
                                                               t.modernized_code)) :
                    validate_transformation(t.file_path, t.modernized_code, tests,
                                            [given |-> FALSE])
              /\ visited' = Append(visited, "submitted")
              /\ UNCHANGED <<idx, validation_results, errors>>
    /\ UNCHANGED <<environ, MODAL_AVAILABLE, MODAL_EXECUTOR_AVAILABLE, prefer_modal, op,
                   oracle, result, transformations, results, phase, codes,
                   original_results, tmpdirs, sandboxes>>

\* a variant of P5_Append that leaves the loop after a result with
\* success = false
P5_Append_StopsOnFailure ==
    /\ pc = "p5_ret"
    /\ IF IsDict(result)
       THEN /\ validation_results' =
                  Append(validation_results,
                         Set(result, "file_path", Selected(transformations)[idx].file_path))
            /\ UNCHANGED errors
       ELSE /\ errors' = Append(errors, "Validation error: <e>")
            /\ UNCHANGED validation_results
    /\ idx' = IF IsDict(result) /\ ~result.success
              THEN Len(Selected(transformations)) + 1 ELSE idx + 1
    /\ pc' = "p5_loop"
    /\ ctx' = "none" /\ req' = NoReq /\ ret' = NoRet /\ result' = NoResult
    /\ trace' = [NoTrace EXCEPT !.prior_remote_failure =
                                   (trace.prior_remote_failure \/ trace.remote_failed)]
    /\ UNCHANGED <<environ, MODAL_AVAILABLE, MODAL_EXECUTOR_AVAILABLE, prefer_modal, op,
                   oracle, transformations, results, phase, codes,
                   original_results, tmpdirs, sandboxes, visited>>

\* lines 405-411: the result gets its file_path and is appended; an
\* exception out of the call goes to the handler of the loop body.  The call
\* is over: nothing of it but the appended record is kept.
P5_Append ==
    /\ pc = "p5_ret"
    /\ IF IsDict(result)
       THEN /\ validation_results' =
                  Append(validation_results,
                         Set(result, "file_path", Selected(transformations)[idx].file_path))
            /\ UNCHANGED errors
       ELSE /\ errors' = Append(errors, "Validation error: <e>")
            /\ UNCHANGED validation_results
    /\ idx' = idx + 1
    /\ pc' = "p5_loop"
    /\ ctx' = "none" /\ req' = NoReq /\ ret' = NoRet /\ result' = NoResult
    /\ trace' = [NoTrace EXCEPT !.prior_remote_failure =
                                   (trace.prior_remote_failure \/ trace.remote_failed)]
    /\ UNCHANGED <<environ, MODAL_AVAILABLE, MODAL_EXECUTOR_AVAILABLE, prefer_modal, op,
                   oracle, transformations, results, phase, codes,
                   original_results, tmpdirs, sandboxes, visited>>

\* the loop is over: the phase goes on to the aggregate figures
P5_End ==
    /\ pc = "p5_loop"
    /\ idx > Len(Selected(transformations))
    /\ pc' = "done"
    /\ result' = [files_validated |-> Len(validation_results)]
    /\ UNCHANGED <<env, op, ctx, req, oracle, ret, transformations, results, phase, codes,
                   original_results, tmpdirs, sandboxes, trace>>

\* the orchestrator's validator is made without a prefer_modal argument
OrchInit == Init /\ environ.prefer_modal = "None"

OrchNext ==
    \/ Phase5 \/ P5_Item \/ P5_Append \/ P5_End
    \/ EM_Create \/ EM_Exec \/ EM_Terminate
    \/ Loc_Mkdtemp \/ Loc_Scaffold \/ Loc_Test \/ Loc_Exit
    \/ VT_ModalReturn \/ VT_ModalExcept \/ VT_LocalReturn \/ VT_LocalExcept
    \/ Release

OrchSpec == OrchInit /\ [][OrchNext]_vars

(***************************************************************************)
(* Properties.  A public operation has returned when pc = "done"; op, req, *)
(* ret, the oracle and the trace of the call stay readable until Release.  *)
(***************************************************************************)
Finished(o) == pc = "done" /\ op = o

\* the local backend goes through and the tests pass in the world the oracle fixed
LocalWouldSucceed ==
    /\ oracle # NoOracle
    /\ oracle.mkdtemp = "ok" /\ oracle.scaffold = "ok"
    /\ oracle.test.kind = "done"
    /\ LocalResult(req.language, oracle.test).success

\* the result dicts handed to the caller by the operation that has returned
Returned ==
    IF pc # "done" THEN {}
    ELSE CASE op = "validate_batch" -> {result.batch[i] : i \in 1..Len(result.batch)}
           [] op = "test_behavioral_equivalence" ->
                {result.original_results, result.modernized_results}
           [] OTHER -> IF IsDict(result) THEN {result} ELSE {}

CountKeys == {"tests_run", "tests_passed", "tests_failed"}

C2_RemoteFailureYieldsLocalResult ==
    (Finished("validate_transformation") /\ prefer_modal /\ trace.remote_failed
        /\ LocalWouldSucceed)
    => /\ IsDict(result)
       /\ result.execution_mode = "local"
       /\ result.success
       /\ \A k \in CountKeys :
            Get(result, k) = Get(LocalResult(req.language, oracle.test), k)

\* C3: on a prefer-remote instance, whenever the remote backend failed during
\* a validate_transformation call, the local backend was run within that call,
\* and the call reports a failure only if the local run fails as well.
C3_LocalRunsAfterRemoteFailure ==
    (Finished("validate_transformation") /\ prefer_modal /\ trace.remote_failed)
    => /\ trace.local_calls >= 1
       /\ IsDict(result)
       /\ ~result.success => ~LocalWouldSucceed

\* a step in which a validate_transformation call, or the run of a batch
\* item, enters its first backend
EntersFirstBackend ==
    /\ pc' \in {"em_create", "loc_mkdtemp"}
    /\ \/ pc = "idle"
       \/ pc = "vb_loop"
       \/ pc = "ret" /\ phase = 1 /\ phase' = 2

\* C4: no step of validate_transformation, validate_batch or
\* test_behavioral_equivalence changes prefer_modal, and on a prefer-remote
\* instance every call enters the remote try block first (and execute_in_modal
\* when the executor module was imported), also after a call in which the
\* remote backend failed.
C4_PreferenceKept ==
    [][ /\ prefer_modal' = prefer_modal
        /\ (prefer_modal /\ EntersFirstBackend)
              => /\ ctx' \in {"vt_modal", "vb_modal"}
                 /\ MODAL_EXECUTOR_AVAILABLE => pc' = "em_create" ]_vars

\* C4 witness: a sandbox is being requested again on an instance whose remote
\* backend failed in an earlier call
C4_Witness ==
    /\ prefer_modal /\ trace.prior_remote_failure
    /\ pc = "em_create" /\ trace.modal_calls = 1

\* C5: on an instance whose preference is local, execute_in_modal is never
\* called and no sandbox is ever created.
C5_LocalNeverGoesRemote ==
    ~prefer_modal =>
        /\ pc \notin {"em_create", "em_exec", "em_term"}
        /\ ctx \notin {"vt_modal", "vb_modal"}
        /\ trace.modal_calls = 0 /\ trace.boxes = 0 /\ sandboxes = 0

\* C5 witness: a batch on a local-preference instance, with Modal installed,
\* has returned after a failing and a passing local run
C5_Witness ==
    /\ ~prefer_modal /\ MODAL_AVAILABLE /\ MODAL_EXECUTOR_AVAILABLE
    /\ Finished("validate_batch")
    /\ trace.local_calls >= 2
    /\ \E i, j \in 1..Len(results) : ~results[i].success /\ results[j].success

\* C6, the results so far: one result per item handled, result i with the
\* file_path of item i; the returned list is complete.
C6_ResultsFollowItems ==
    op = "validate_batch" =>
        /\ Len(results) <= Len(transformations)
        /\ \A i \in 1..Len(results) :
             /\ IsDict(results[i])
             /\ results[i].file_path = transformations[i].file_path
        /\ pc = "done" => /\ result = [batch |-> results]
                          /\ Len(results) = Len(transformations)

\* C6, one item: handling an item appends one result and leaves the results
\* of the items before it as they were; an item whose run raised or ended
\* before the test output was read gets success = false.
C6_ItemStep ==
    (op = "validate_batch" /\ op' = "validate_batch" /\ results' # results)
    => /\ Len(results') = Len(results) + 1
       /\ SubSeq(results', 1, Len(results)) = results
       /\ (ret.kind = "raise" \/ ret.stage # "parsed")
             => ~results'[Len(results')].success

C7_CountsAddUp ==
    \A r \in Returned :
        "error" \notin DOMAIN r
        => Get(r, "tests_run") = Get(r, "tests_passed") + Get(r, "tests_failed")
                                 + Get(r, "tests_errors") + Get(r, "tests_skipped")

\* the record built from the backend run whose outcome is in ret
LastRecord ==
    CASE op = "validate_batch" /\ pc \in {"vb_loop", "done"} /\ results # <<>> ->
           {results[Len(results)]}
      [] op \in {"validate_transformation", "run_tests"} /\ pc = "done" /\ IsDict(result) ->
           {result}
      [] OTHER -> {}

\* C8: every record returned for a run that did not reach parsed test output
\* has success = false, tests_run = tests_passed = tests_failed = 0 (an absent
\* field counting as 0) and a non-empty error message.
C8_FailureRecordsAreEmpty ==
    \A r \in LastRecord :
        (ret.kind = "raise" \/ ret.stage # "parsed")
        => /\ ~r.success
           /\ \A k \in CountKeys : Get(r, k) = 0
           /\ "error" \in DOMAIN r /\ r.error # ""

\* the steps inside a with tempfile.TemporaryDirectory() block
InTemporaryDirectory ==
    pc \in {"loc_scaffold", "loc_install", "loc_test", "loc_exit",
            "rn_scaffold", "rn_install", "rn_test", "rn_exit"}

\* C9: a temporary project directory exists only inside the with block that
\* made it: none is left when the backend function returns or raises, and
\* none exists between two calls.
C9_TemporaryDirectoryRemoved == tmpdirs = IF InTemporaryDirectory THEN 1 ELSE 0

\* C9 witness: a call that made a temporary directory has ended in an
\* exception or an error record
C9_Witness ==
    /\ pc = "done" /\ trace.dirs >= 1 /\ tmpdirs = 0
    /\ ret.kind = "raise" \/ ret.stage \in {"timeout", "notfound", "compile"}

\* C10: a sandbox is live only between Sandbox.create and the finally block
\* of execute_in_modal: none is left once execute_in_modal has returned.
C10_SandboxTerminated == sandboxes = IF pc \in {"em_exec", "em_term"} THEN 1 ELSE 0

\* C10 witness: execute_in_modal has returned after an upload or exec raised
\* in the sandbox it had created
C10_Witness ==
    /\ pc = "ret" /\ ctx \in {"vt_modal", "vb_modal"}
    /\ trace.boxes >= 1 /\ ret.kind = "value" /\ ret.stage = "exec"
    /\ sandboxes = 0

\* C11: when the test text lacks the markers of its language,
\* validate_transformation makes no temporary directory, starts no backend
\* and creates no sandbox, and returns success = false with tests_run = 0 and
\* the error of the structural check.
C11_RejectedBeforeAnyBackend ==
    (op = "validate_transformation" /\ ~ValidateTests(req.language, req.tests).ok)
    => /\ trace.modal_calls = 0 /\ trace.local_calls = 0
       /\ trace.dirs = 0 /\ trace.boxes = 0
       /\ tmpdirs = 0 /\ sandboxes = 0
       /\ pc = "done" =>
            /\ IsDict(result) /\ ~result.success
            /\ Get(result, "tests_run") = 0
            /\ "error" \in DOMAIN result
            /\ result.error = "Test validation failed: "
                                \o ValidateTests(req.language, req.tests).msg

\* C12: a record returned because a command's timeout expired has
\* success = false, zero counts, an error message and an execution_time that
\* is the timeout bound of a command of that backend run.
C12_TimeoutReportsItsBound ==
    \A r \in LastRecord :
        ret.stage = "timeout"
        => /\ ~r.success
           /\ \A k \in CountKeys : Get(r, k) = 0
           /\ "error" \in DOMAIN r /\ r.error # ""
           /\ "execution_time" \in DOMAIN r
           /\ r.execution_time \in CommandTimeouts(IF op = "run_tests" THEN "runner"
                                                    ELSE "local", req.language)

\* C13, one step: for Python the install step always hands over to the test
\* step, whatever pip did, and produces no result of its own.
C13_InstallStep ==
    (pc \in {"loc_install", "rn_install"} /\ req.language = "python")
    => /\ pc' = IF pc = "loc_install" THEN "loc_test" ELSE "rn_test"
       /\ ret' = ret

\* C13, the result: after a failed pip install the run ended in the test
\* step, and the record of the local backend is the one pytest's outcome
\* alone determines.
C13_InstallFailureLeavesNoMark ==
    (trace.pip_failed /\ pc = "done" /\ op \in {"validate_transformation", "run_tests"})
    => /\ ret.stage \in {"parsed", "timeout", "notfound", "process"}
       /\ (op = "validate_transformation" /\ ret.kind = "value")
             => ret.value = LocalResult("python", oracle.test)

\* C13: for Python, pytest is started after the install step whatever the
\* install outcome, and an install failure alone never makes a failure result.
C13_PythonInstallNotFatal == []C13_InstallFailureLeavesNoMark /\ [][C13_InstallStep]_vars

\* C13 witness: pip install failed and the call returned the passing result
\* of pytest
C13_Witness ==
    /\ trace.pip_failed /\ pc = "done"
    /\ op \in {"validate_transformation", "run_tests"}
    /\ req.language = "python"
    /\ IsDict(result) /\ result.success /\ "error" \notin DOMAIN result

\* C14: for JavaScript and TypeScript, a run whose npm install exited
\* non-zero returns success = false with tests_run = tests_passed =
\* tests_failed = 0, in the Jest runner and in the remote sandbox.
C14_NpmInstallFailureHasNoCounts ==
    \A r \in LastRecord :
        (req.language \in {"javascript", "typescript"} /\ ret.stage = "install")
        => /\ ~r.success
           /\ \A k \in CountKeys : Get(r, k) = 0

\* the Maven run of the Java runner that has returned, as trace.outcome
JavaRunReturned ==
    /\ pc = "done" /\ op = "run_tests" /\ req.language = "java"
    /\ IsDict(result) /\ ret.stage = "parsed"

SuiteFailedToLoad ==
    /\ req.language \in {"javascript", "typescript"}
    /\ ret.kind = "value" /\ ret.stage = "parsed"
    /\ LET o == trace.outcome
       IN  /\ o.kind = "done"
           /\ \/ /\ "suites_failed" \in DOMAIN o
                 /\ o.suites_failed
                 /\ o.tests_line.kind = "line" => o.tests_line.total = 0
              \/ "load_failed" \in DOMAIN o /\ o.load_failed
              \/ /\ "json" \in DOMAIN o
                 /\ o.json.kind = "line"
                 /\ o.json.numTotalTests = 0 /\ ~o.json.success

\* C16: for JavaScript/TypeScript a suite that failed to load before any test
\* ran is returned as success = false with tests_run = tests_passed =
\* tests_failed = 0, in every backend.
C16_LoadFailureHasNoCounts ==
    \A r \in LastRecord :
        SuiteFailedToLoad
        => /\ ~r.success
           /\ \A k \in CountKeys : Get(r, k) = 0

\* C17: test_behavioral_equivalence on identical original and modernized code
\* returns equivalence_score = 1.0 and behavioral_equivalence = true, for
\* every test-case list and every outcome of the two runs.
C17_IdenticalCodeIsEquivalent ==
    (Finished("test_behavioral_equivalence") /\ codes[1] = codes[2])
    => /\ result.equivalence_score = 1000
       /\ result.behavioral_equivalence

Override ==
    CASE environ.prefer_modal # "None" -> [given |-> TRUE, modal |-> environ.prefer_modal = "True"]
      [] Lower(environ.EXECUTION_MODE) \in {"modal", "local"} ->
           [given |-> TRUE, modal |-> Lower(environ.EXECUTION_MODE) = "modal"]
      [] OTHER -> [given |-> FALSE]

\* C19 as stated: with an explicit override the instance's preference equals
\* the override, for every platform signal, credential presence and SDK
\* availability.
C19_PreferenceIsTheOverride ==
    (Finished("__init__") /\ Override.given) => prefer_modal = Override.modal

\* C19 amended: with an explicit override the instance's preference is the
\* override, whatever the platform signal and the credentials, except that
\* it is local whenever the Modal SDK could not be imported.
C19_OverrideBeatsDetection ==
    (Finished("__init__") /\ Override.given)
    => prefer_modal = (Override.modal /\ MODAL_AVAILABLE)

\* C19 witness: prefer_modal=False was passed on a Hugging Face Space with
\* credentials, the SDK and EXECUTION_MODE=modal, and the instance prefers
\* the local backend
C19_Witness ==
    /\ Finished("__init__")
    /\ environ.prefer_modal = "False" /\ environ.EXECUTION_MODE = "modal"
    /\ environ.huggingface /\ environ.modal_configured /\ MODAL_AVAILABLE
    /\ ~prefer_modal

\* a backend run of validate_batch is between its call and the recording of
\* its result
BatchRunInProgress == op = "validate_batch" /\ pc \notin {"idle", "done", "vb_loop"}

PythonRunParsed ==
    /\ ret.kind = "value" /\ ret.stage = "parsed"
    /\ req.language = "python"

\* the counts the pytest output shows: those of the summary line when the
\* line reports a test, otherwise those of the result lines
ShownCounts(o) ==
    IF "lines" \in DOMAIN o
    THEN IF o.summary.kind = "line"
            /\ o.summary.passed + o.summary.failed + o.summary.error + o.summary.skipped > 0
         THEN [passed |-> o.summary.passed, failed |-> o.summary.failed,
               error |-> o.summary.error]
         ELSE [passed |-> o.lines.PASSED, failed |-> o.lines.FAILED,
               error |-> o.lines.ERROR]
    ELSE [passed |-> o.PASSED, failed |-> o.FAILED, error |-> o.ERROR]

\* the remote executor reads only the exit status of pytest
ReadsOutput(o) == "PASSED" \in DOMAIN o \/ "lines" \in DOMAIN o

\* pytest's exit status is 0 exactly when its output shows no failed and no
\* errored test
ExitStatusAgrees(o) ==
    (o.rc = 0) <=> (ShownCounts(o).failed = 0 /\ ShownCounts(o).error = 0)

\* C21 as stated: for Python, every record built after the test step ran has
\* tests_run >= 1, and success exactly when tests_failed = 0 and
\* tests_errors = 0.
C21_PythonRunsCountAndAgree ==
    PythonRunParsed
    => /\ ret.value.tests_run >= 1
       /\ ret.value.success
          <=> (ret.value.tests_failed = 0 /\ Get(ret.value, "tests_errors") = 0)

\* C21 amended: for Python, a record built from pytest output that shows a
\* passed test has tests_run >= 1; a record built from output whose exit
\* status agrees with the counts it shows has success exactly when
\* tests_failed = 0 and tests_errors = 0; the remote executor, which reads
\* the exit status only, reports one test, failed exactly when success is
\* false.
C21_PythonRunsOfPassingTests ==
    PythonRunParsed
    => IF ReadsOutput(trace.outcome)
       THEN /\ ShownCounts(trace.outcome).passed >= 1 => ret.value.tests_run >= 1
            /\ ExitStatusAgrees(trace.outcome)
               => (ret.value.success
                   <=> (ret.value.tests_failed = 0
                        /\ Get(ret.value, "tests_errors") = 0))
       ELSE /\ ret.value.tests_run = 1
            /\ ret.value.success <=> ret.value.tests_failed = 0

\* C21 witness: the local backend has returned success = false for a pytest
\* run that ended with a non-zero status and one errored test
C21_Witness ==
    /\ PythonRunParsed
    /\ ret.value.execution_mode = "local"
    /\ ReadsOutput(trace.outcome) /\ ExitStatusAgrees(trace.outcome)
    /\ trace.outcome.ERROR = 1
    /\ ~ret.value.success

\* the programs an error message of the backends names
ToolsNamed(msg) ==
    CASE msg = "pytest not found. Install with: pip install pytest" -> {"pytest", "pip"}
      [] msg = "pytest not found in container" -> {"pytest"}
      [] msg = "Java compiler (javac) not found. Install JDK." -> {"javac"}
      [] msg = "Maven (mvn) not found in container" -> {"mvn"}
      [] msg = "Node.js not found. Install Node.js." -> {"node"}
      [] msg = "Node.js/npm not found in container" -> {"node", "npm"}
      [] OTHER -> {}

\* C22: when a program a backend needs (pip, pytest, javac, java, mvn, node,
\* npm) was not found during a call, the call ends at that command with a
\* record that has success = false and an error message naming the program.
C22_MissingToolEndsTheCall ==
    \A r \in LastRecord :
        trace.missing # {}
        => /\ ret.kind = "value" /\ ret.stage = "notfound"
           /\ ~r.success
           /\ "error" \in DOMAIN r
           /\ trace.missing \subseteq ToolsNamed(r.error)

\* C23: a language runner called with a test text that fails the structural
\* check returns the rejection record (success = false, zero counts) at once:
\* no temporary directory is made and no install, build or test process is
\* started.
C23_RunnerRejectsBeforeAnyWork ==
    (op = "run_tests" /\ ~ValidateTests(req.language, req.tests).ok)
    => /\ pc = "done"
       /\ IsDict(result) /\ ~result.success
       /\ \A k \in CountKeys : result[k] = 0
       /\ result.error = "Test validation failed: " \o ValidateTests(req.language, req.tests).msg
       /\ tmpdirs = 0 /\ trace.dirs = 0
       /\ trace.outcome.kind = "none" /\ ~trace.pip_failed /\ trace.missing = {}

\* C23 witness: run_java_tests has returned the rejection for a test text
\* without @Test
C23_Witness ==
    /\ Finished("run_tests")
    /\ req.language = "java" /\ "@Test" \notin req.tests
    /\ ret.stage = "rejected"
    /\ result.error = "Test validation failed: No @Test annotations found (required for JUnit 5)"

\* how often " PASSED", " FAILED" and " ERROR" occur in the output
LiteralCounts(o) ==
    IF "lines" \in DOMAIN o
    THEN [passed |-> o.lines.PASSED, failed |-> o.lines.FAILED, error |-> o.lines.ERROR]
    ELSE [passed |-> o.PASSED, failed |-> o.FAILED, error |-> o.ERROR]

\* C24: a Python record built from pytest output takes its counts from the
\* summary line whenever the output has one (tests_run being the sum of the
\* line's numbers), and from the literal PASSED / FAILED / ERROR occurrences
\* only when it has none; the two are never mixed or added.
C24_SummaryLineFirst ==
    (PythonRunParsed /\ ReadsOutput(trace.outcome))
    => LET o == trace.outcome
           m == o.summary
           l == LiteralCounts(o)
       IN  IF m.kind = "line"
           THEN /\ ret.value.tests_run = m.passed + m.failed + m.error + m.skipped
                /\ ret.value.tests_passed = m.passed
                /\ ret.value.tests_failed = m.failed
                /\ ret.value.tests_errors = m.error
           ELSE /\ ret.value.tests_run = l.passed + l.failed + l.error
                /\ ret.value.tests_passed = l.passed
                /\ ret.value.tests_failed = l.failed
                /\ ret.value.tests_errors = l.error

\* C25: whichever backend runs a request, the install and test commands and
\* their timeouts are the same: the commands of the local backend for the
\* request are those of the remote backend.
C25_BackendsRunTheSameCommands ==
    pc \in {"em_create", "loc_mkdtemp"}
    => LocalCommands(req.language, req.requirements)
       = RemoteCommands(req.language, req.requirements)

\* how many of the items the loop has taken were submitted / raised
CountVisited(kind) == Cardinality({i \in 1..Len(visited) : visited[i] = kind})

\* the items of the loop that were submitted to validate_transformation and
\* whose call has returned, in order
SubmittedPaths ==
    LET RECURSIVE paths(_)
        paths(i) ==
            IF i = 0 THEN <<>>
            ELSE IF visited[i] = "submitted" /\ (i < idx)
                 THEN Append(paths(i - 1), Selected(transformations)[i].file_path)
                 ELSE paths(i - 1)
    IN  paths(Len(visited))

\* C26, at every moment of Phase 5: the loop takes the selected items one by
\* one; each item taken has either raised before its call or been submitted
\* to validate_transformation; every call that has returned left its result,
\* whatever its success flag, and every exception left one entry in errors;
\* the phase ends only after the last selected item.
C26_LoopAccountsForEveryItem ==
    op = "modernize_repository"
    => /\ idx \in 1..(Len(Selected(transformations)) + 1)
       /\ Len(visited) = IF pc \in {"p5_loop", "done"} THEN idx - 1 ELSE idx
       /\ Len(errors) = CountVisited("raised")
       /\ Len(validation_results) = Len(SubmittedPaths)
       /\ \A k \in 1..Len(validation_results) :
            validation_results[k].file_path = SubmittedPaths[k]
       /\ pc = "done" => Len(visited) = Len(Selected(transformations))

\* a step of Phase 5 that is taken while an item is left never ends the
\* phase and never moves the loop past more than that item
C26_LoopStep ==
    (op = "modernize_repository" /\ op' = "modernize_repository")
    => /\ idx' \in {idx, idx + 1}
       /\ pc' = "done" => idx > Len(Selected(transformations))

\* C26: Phase 5 submits every selected transformation that gets as far as its
\* call, regardless of what happened to the files before it: neither a
\* success = false result nor an exception for one file ends the loop or
\* skips a later file.
C26_FailuresDoNotStopValidation ==
    []C26_LoopAccountsForEveryItem /\ [][C26_LoopStep]_vars

\* C26 witness: Phase 5 has ended with two items; the first raised before its
\* call or got success = false, and the second was submitted and its result
\* recorded
C26_Witness ==
    /\ Finished("modernize_repository")
    /\ Len(Selected(transformations)) = 2
    /\ visited[2] = "submitted"
    /\ \/ visited[1] = "raised" /\ Len(validation_results) = 1
       \/ Len(validation_results) = 2 /\ ~validation_results[1].success

\* C27: within one validate_transformation call the remote backend is entered
\* at most once and the local backend is entered at most once.
C27_EachBackendAtMostOnce ==
    op = "validate_transformation"
    => trace.modal_calls <= 1 /\ trace.local_calls <= 1

\* C28: no record handed to a caller has success = true with tests_run = 0.
C28_NoSuccessWithoutTests ==
    \A r \in Returned : r.success => Get(r, "tests_run") >= 1

\* two records agree on the success flag, the counts and the execution mode
SameVerdict(a, b) ==
    /\ a.success = b.success
    /\ \A k \in CountKeys : Get(a, k) = Get(b, k)
    /\ a.execution_mode = b.execution_mode

\* C29: the record validate_batch gives for the only item of a one-item list
\* is the one validate_transformation gives for the same code, tests and
\* file_path under the same backend behaviour: the same requirements are
\* installed, a raising local backend gives the "failed" record, and a
\* raising remote attempt is followed by the local backend.
C29_BatchOfOneIsValidateTransformation ==
    (Finished("validate_batch") /\ Len(transformations) = 1)
    => LET t == transformations[1]
           r == result.batch[1]
           vt == Request(t.file_path, t.modernized_code, t.tests, [given |-> FALSE])
       IN  /\ req.requirements = vt.requirements
           /\ (ret.kind = "raise" /\ ctx = "vb_local")
              => SameVerdict(r, LocalValidationError(ret.msg))
           /\ (ret.kind = "raise" /\ ctx = "vb_modal")
              => r.execution_mode \in {"local", "failed"}
           /\ ret.kind = "value" => SameVerdict(r, ret.value)

\* the constructor that has returned was given no prefer_modal argument and
\* EXECUTION_MODE was unset or not one of modal, local, auto
NoOverride ==
    /\ Finished("__init__")
    /\ environ.prefer_modal = "None"
    /\ Lower(environ.EXECUTION_MODE) \notin {"modal", "local", "auto"}

\* C30: with no override a new instance prefers the remote backend exactly
\* when the Modal SDK could be imported and the host is a Hugging Face Space
\* or Modal credentials are present; without the SDK it prefers the local
\* backend.
C30_DetectedPreference ==
    NoOverride
    => /\ prefer_modal
          <=> (MODAL_AVAILABLE /\ (environ.huggingface \/ environ.modal_configured))
       /\ ~MODAL_AVAILABLE => ~prefer_modal

\* C30 witness: on a Hugging Face Space without credentials, with the SDK and
\* an unrecognised EXECUTION_MODE, the new instance prefers the remote backend
C30_Witness ==
    /\ NoOverride
    /\ environ.EXECUTION_MODE = "docker"
    /\ environ.huggingface /\ ~environ.modal_configured /\ MODAL_AVAILABLE
    /\ prefer_modal

====
